---------------------------- MODULE Spec2Model ----------------------------
(***************************************************************************)
(* Error normalization (error-handlers.py) and request observability      *)
(* (logging-config.py) of the API gateway.                                 *)
(*                                                                         *)
(* Three specifications:                                                    *)
(*   SpecNorm  the exception handlers of register_error_handlers applied   *)
(*             to failures drawn from bounded sets;                        *)
(*   Spec      the request pipeline built by setup_middleware and          *)
(*             register_error_handlers, with interleaved requests;         *)
(*   SpecSingle  the same pipeline for one request whose route raises      *)
(*             failures of every class.                                    *)
(***************************************************************************)
EXTENDS Integers, Sequences, FiniteSets, TLC

(***************************************************************************)
(* Bounds                                                                  *)
(***************************************************************************)
MaxLoc ==
    2

MaxErrors ==
    2

NumReq ==
    2

MaxClock ==
    1

(***************************************************************************)
(* Exception classes.  Every class the handlers are registered for derives *)
(* from Exception; RuntimeError and ValueError stand for the classes that  *)
(* have no handler of their own.                                           *)
(***************************************************************************)
Registered ==
    << "StarletteHTTPException", "RequestValidationError",
       "DatabaseConnectionError", "PostgresError", "AnalysisException",
       "IllegalArgumentException", "TrinoQueryError", "QueryBuildError",
       "UnknownDataSourceError", "Exception" >>

RegisteredSet ==
    { Registered[i] : i \in 1..Len(Registered) }

Unregistered ==
    { "RuntimeError", "ValueError" }

Classes ==
    RegisteredSet \cup Unregistered

\* Base class of a class.  asyncio.CancelledError derives from BaseException,
\* not from Exception.
Base(c) ==
    CASE c = "BaseException"  -> "object"
      [] c = "Exception"      -> "BaseException"
      [] c = "CancelledError" -> "BaseException"
      [] OTHER                -> "Exception"

\* type(exc).__mro__ without object: the class, then its bases.
RECURSIVE Mro(_)
Mro(c) ==
    IF c = "object" THEN << >> ELSE << c >> \o Mro(Base(c))

\* isinstance(exc, c)
IsInstance(exc, c) ==
    \E i \in 1..Len(Mro(exc.cls)) : Mro(exc.cls)[i] = c

\* Handler lookup: the first class of the MRO that has a handler.
RECURSIVE LookupFrom(_, _)
LookupFrom(mro, i) ==
    IF i > Len(mro) THEN "none"
    ELSE IF mro[i] \in RegisteredSet THEN mro[i]
    ELSE LookupFrom(mro, i + 1)

\* Mutant: the handlers are tried in reverse MRO order (least specific first).
LookupHandlerLeastSpecific(c) ==
    IF c \in Classes THEN "Exception" ELSE "none"

LookupHandler(c) ==
    LookupFrom(Mro(c), 1)

(***************************************************************************)
(* Failure values.  status_code and detail are the attributes of an HTTP   *)
(* exception, errors the result of RequestValidationError.errors(), msg    *)
(* the single constructor argument, which str(exc) returns.                *)
(***************************************************************************)
Messages ==
    { "boom", "relation users does not exist" }

HttpStatuses ==
    { 404, 403 }

StrSeg(s) ==
    [tag |-> "str", s |-> s, n |-> 0]

IntSeg(n) ==
    [tag |-> "int", s |-> "", n |-> n]

Segments ==
    { StrSeg("body"), StrSeg("age"), IntSeg(0) }

RECURSIVE SeqsUpTo(_, _)
SeqsUpTo(S, n) ==
    IF n = 0 THEN { << >> }
    ELSE LET shorter == SeqsUpTo(S, n - 1)
         IN  shorter \cup { Append(q, x) : q \in { p \in shorter : Len(p) = n - 1 }, x \in S }

Locs ==
    SeqsUpTo(Segments, MaxLoc)

FieldErrors ==
    { [loc |-> l, msg |-> "must be positive", type |-> "value_error"] : l \in Locs }
    \cup { [loc |-> << StrSeg("body") >>, msg |-> "field required", type |-> "missing"] }

Exc(c, m) ==
    [cls |-> c, msg |-> m, status_code |-> 0, detail |-> "", errors |-> << >>]

HttpExc(s, d) ==
    [cls |-> "StarletteHTTPException", msg |-> d, status_code |-> s,
     detail |-> d, errors |-> << >>]

ValidationExc(errs) ==
    [cls |-> "RequestValidationError", msg |-> "validation", status_code |-> 0,
     detail |-> "", errors |-> errs]

\* str(exc)
Str(exc) ==
    exc.msg

\* str(x) of one location segment
StrOf(x) ==
    IF x.tag = "int" THEN ToString(x.n) ELSE x.s

\* sep.join(parts)
RECURSIVE Join(_, _)
Join(sep, parts) ==
    IF Len(parts) = 0 THEN ""
    ELSE IF Len(parts) = 1 THEN parts[1]
    ELSE parts[1] \o sep \o Join(sep, Tail(parts))

\* Mutant: the segments are joined without the separator.
LocStringNoSep(loc) ==
    Join("", [i \in 1..Len(loc) |-> StrOf(loc[i])])

\* " -> ".join([str(x) for x in error["loc"]])
LocString(loc) ==
    Join(" -> ", [i \in 1..Len(loc) |-> StrOf(loc[i])])

(***************************************************************************)
(* Responses.  An optional key of the JSON content is a sequence: empty    *)
(* when the key is absent, << v >> when it is present.                     *)
(***************************************************************************)
JSONResponse(status, error, type, detail, details) ==
    [status_code |-> status, error |-> error, type |-> type,
     detail |-> detail, details |-> details]

http_exception_handler(exc) ==
    JSONResponse(exc.status_code, exc.detail, "http_error", << >>, << >>)

error_details(exc) ==
    [i \in 1..Len(exc.errors) |->
        [location |-> LocString(exc.errors[i].loc),
         message |-> exc.errors[i].msg,
         type |-> exc.errors[i].type]]

validation_exception_handler(exc) ==
    JSONResponse(422, "Validation error", "validation_error", << >>,
                 << error_details(exc) >>)

db_connection_exception_handler(exc) ==
    JSONResponse(503, "Database connection error", "database_connection_error",
                 << Str(exc) >>, << >>)

postgres_exception_handler(exc) ==
    JSONResponse(500, "Database error", "postgres_error", << Str(exc) >>, << >>)

spark_analysis_exception_handler(exc) ==
    JSONResponse(400, "Spark query analysis error", "spark_analysis_error",
                 << Str(exc) >>, << >>)

spark_argument_exception_handler(exc) ==
    JSONResponse(400, "Spark illegal argument error", "spark_argument_error",
                 << Str(exc) >>, << >>)

trino_query_exception_handler(exc) ==
    JSONResponse(400, "Trino query error", "trino_query_error",
                 << Str(exc) >>, << >>)

query_build_exception_handler(exc) ==
    JSONResponse(400, "Failed to build query", "query_build_error",
                 << Str(exc) >>, << >>)

unknown_datasource_exception_handler(exc) ==
    JSONResponse(400, "Unknown data source", "unknown_data_source_error",
                 << Str(exc) >>, << >>)

\* Mutant: the message is disclosed whatever the debug flag says.
general_exception_handler_nogate(exc, dbg) ==
    JSONResponse(500, "Internal server error", "server_error",
                 << Str(exc) >>, << >>)

\* Mutant: the catch-all answers 400.
general_exception_handler_400(exc, dbg) ==
    JSONResponse(400, "Internal server error", "server_error",
                 << IF dbg THEN Str(exc) ELSE "An unexpected error occurred" >>,
                 << >>)

general_exception_handler(exc, dbg) ==
    JSONResponse(500, "Internal server error", "server_error",
                 << IF dbg THEN Str(exc) ELSE "An unexpected error occurred" >>,
                 << >>)

\* The handler registered for class h, applied to exc.
RunHandler(h, exc, dbg) ==
    CASE h = "StarletteHTTPException"  -> http_exception_handler(exc)
      [] h = "RequestValidationError"  -> validation_exception_handler(exc)
      [] h = "DatabaseConnectionError" -> db_connection_exception_handler(exc)
      [] h = "PostgresError"           -> postgres_exception_handler(exc)
      [] h = "AnalysisException"       -> spark_analysis_exception_handler(exc)
      [] h = "IllegalArgumentException" -> spark_argument_exception_handler(exc)
      [] h = "TrinoQueryError"         -> trino_query_exception_handler(exc)
      [] h = "QueryBuildError"         -> query_build_exception_handler(exc)
      [] h = "UnknownDataSourceError"  -> unknown_datasource_exception_handler(exc)
      [] h = "Exception"               -> general_exception_handler(exc, dbg)

\* The log record each handler emits on entry.
HandlerEvent(h) ==
    CASE h = "StarletteHTTPException"  -> "HTTP exception"
      [] h = "RequestValidationError"  -> "Validation error"
      [] h = "DatabaseConnectionError" -> "Database connection error"
      [] h = "PostgresError"           -> "PostgreSQL error"
      [] h = "AnalysisException"       -> "Spark analysis error"
      [] h = "IllegalArgumentException" -> "Spark argument error"
      [] h = "TrinoQueryError"         -> "Trino query error"
      [] h = "QueryBuildError"         -> "Query build error"
      [] h = "UnknownDataSourceError"  -> "Unknown data source error"
      [] h = "Exception"               -> "Unhandled exception"

HandlerEvents ==
    { HandlerEvent(h) : h \in RegisteredSet }

\* The failures the model raises.
Failures ==
    { Exc(c, m) : c \in Classes \ { "StarletteHTTPException", "RequestValidationError" },
                  m \in Messages }
    \cup { HttpExc(s, d) : s \in HttpStatuses, d \in { "Not Found", "boom" } }
    \cup { ValidationExc(errs) : errs \in SeqsUpTo(FieldErrors, MaxErrors) }

(***************************************************************************)
(* State                                                                   *)
(***************************************************************************)
VARIABLES
    debug,            \* app.debug
    failure,          \* SpecNorm: the failure handed to the handlers
    handler,          \* SpecNorm: the class whose handler ran ("none" before)
    response,         \* SpecNorm: the response the handler returned
    clock,            \* time.time()
    pc,               \* per request: where its pipeline stands
    lm_request_id,    \* LoggingMiddleware.dispatch: request_id
    start_time,       \* LoggingMiddleware.dispatch: start_time
    cm_request_id,    \* RequestLoggingContextMiddleware.dispatch: request_id
    ctx,              \* structlog contextvars, one context per task
    result,           \* what call_next hands back to the stage above
    outcome,          \* how LoggingMiddleware.dispatch ended
    reply,            \* the response sent to the client
    log,              \* per request: the log records emitted, in order
    REQUEST_COUNT,    \* Counter api_requests_total
    REQUEST_LATENCY   \* Histogram api_request_duration_seconds

vars ==
    << debug, failure, handler, response, clock, pc, lm_request_id,
       start_time, cm_request_id, ctx, result, outcome, reply, log,
       REQUEST_COUNT, REQUEST_LATENCY >>

normVars ==
    << failure, handler, response >>

pipeVars ==
    << clock, pc, lm_request_id, start_time, cm_request_id, ctx, result,
       outcome, reply, log, REQUEST_COUNT, REQUEST_LATENCY >>

Req ==
    1..NumReq

\* The requests the clients send: request.method, request.url.path and
\* request.client (empty when the connection has no peer address).
Methods ==
    { "GET", "POST" }

Paths ==
    { "/query", "/sources" }

RequestOf(r) ==
    [method |-> IF r % 2 = 1 THEN "GET" ELSE "POST",
     path   |-> IF r % 3 = 1 THEN "/query" ELSE "/sources",
     client |-> IF r % 2 = 1 THEN << "10.0.0.1" >> ELSE << >>]

None ==
    "None"

\* request.client.host if request.client else None
ClientHost(r) ==
    IF RequestOf(r).client # << >> THEN RequestOf(r).client[1] ELSE None

\* The tasks a request runs in: the server's task runs LoggingMiddleware
\* ("lm"), its call_next runs RequestLoggingContextMiddleware in a child
\* task ("cm"), whose call_next runs the application in a child task ("app").
TaskNames ==
    { "lm", "cm", "app" }

Tasks ==
    Req \X TaskNames

Keys ==
    { "request_id", "method", "path", "client_ip", "status_code" }

EmptyContext ==
    [k \in Keys |-> << >>]

\* str(time.time())
LmId(t) ==
    ToString(t) \o ".0"

\* str(int(time.time() * 1000))
CmId(t) ==
    ToString(t * 1000)

NoExc ==
    Exc("none", "")

NoResponse ==
    JSONResponse(0, "", "", << >>, << >>)

\* A response produced by a route.
Response(status) ==
    JSONResponse(status, "", "", << >>, << >>)

NoResult ==
    [kind |-> "none", response |-> NoResponse, exc |-> NoExc]

Returned(resp) ==
    [kind |-> "response", response |-> resp, exc |-> NoExc]

Raised(exc) ==
    [kind |-> "raise", response |-> NoResponse, exc |-> exc]

Cancelled ==
    [kind |-> "cancelled", response |-> NoResponse, exc |-> NoExc]

StatusCodes ==
    { 200, 400, 403, 404, 422, 500, 503 }

CountLabels ==
    Methods \X Paths \X StatusCodes

LatencyLabels ==
    Methods \X Paths

(***************************************************************************)
(* SpecNorm: the handlers applied to one failure                           *)
(***************************************************************************)
PipeInit ==
    /\ clock = 0
    /\ pc = [r \in Req |-> "idle"]
    /\ lm_request_id = [r \in Req |-> ""]
    /\ start_time = [r \in Req |-> 0]
    /\ cm_request_id = [r \in Req |-> ""]
    /\ ctx = [t \in Tasks |-> EmptyContext]
    /\ result = [r \in Req |-> NoResult]
    /\ outcome = [r \in Req |-> NoResult]
    /\ reply = [r \in Req |-> NoResponse]
    /\ log = [r \in Req |-> << >>]
    /\ REQUEST_COUNT = [l \in CountLabels |-> 0]
    /\ REQUEST_LATENCY = [l \in LatencyLabels |-> [count |-> 0, sum |-> 0]]

InitNorm ==
    /\ debug \in BOOLEAN
    /\ failure \in Failures
    /\ handler = "none"
    /\ response = NoResponse
    /\ PipeInit

\* The exception handler registered for the failure's class runs.
Normalize ==
    /\ handler = "none"
    /\ handler' = LookupHandler(failure.cls)
    /\ response' = RunHandler(LookupHandler(failure.cls), failure, debug)
    /\ UNCHANGED << debug, failure >>
    /\ UNCHANGED pipeVars

NextNorm ==
    Normalize

SpecNorm ==
    InitNorm /\ [][NextNorm]_vars

(***************************************************************************)
(* structlog.contextvars and the logger                                    *)
(***************************************************************************)
\* Mutant: one context shared by every task (a single mutable field).
bind_contextvars_shared(c, t, kv) ==
    [u \in DOMAIN c |->
        [k \in Keys |-> IF k \in DOMAIN kv THEN << kv[k] >> ELSE c[u][k]]]

\* structlog.contextvars.bind_contextvars(**kv), called in task t
bind_contextvars(c, t, kv) ==
    [c EXCEPT ![t] =
        [k \in Keys |-> IF k \in DOMAIN kv THEN << kv[k] >> ELSE c[t][k]]]

\* structlog.contextvars.clear_contextvars(), called in task t
clear_contextvars(c, t) ==
    [c EXCEPT ![t] = EmptyContext]

\* call_next runs the stage below in a new task, which starts with a copy
\* of the caller's context.
spawn(c, parent, child) ==
    [c EXCEPT ![child] = c[parent]]

\* One log record: the event, the task that emitted it, the context
\* merge_contextvars adds to it, and the keywords of the call.
Record(event, r, task, c, status, error) ==
    [event |-> event, task |-> task, ctx |-> c[<< r, task >>],
     method |-> RequestOf(r).method, path |-> RequestOf(r).path,
     status_code |-> status, error |-> error]

(***************************************************************************)
(* Prometheus metrics                                                      *)
(***************************************************************************)
\* REQUEST_COUNT.labels(method, path, status_code).inc()
Inc(counter, r, status) ==
    LET l == << RequestOf(r).method, RequestOf(r).path, status >>
    IN  [counter EXCEPT ![l] = @ + 1]

\* REQUEST_LATENCY.labels(method, path).observe(process_time)
Observe(histogram, r, process_time) ==
    LET l == << RequestOf(r).method, RequestOf(r).path >>
    IN  [histogram EXCEPT ![l] = [count |-> @.count + 1,
                                  sum |-> @.sum + process_time]]

(***************************************************************************)
(* The pipeline.  add_middleware puts each middleware in front of the ones  *)
(* added before, so LoggingMiddleware (added last) is the outermost and     *)
(* RequestLoggingContextMiddleware runs inside it, around the application.  *)
(* A handler registered with app.exception_handler for a class other than   *)
(* Exception runs next to the routes, below both middlewares: its response  *)
(* is what call_next returns.  The handler registered for Exception runs    *)
(* above the middlewares, on what LoggingMiddleware re-raises.              *)
(***************************************************************************)
\* The failures a route raises, one of every class.
AllRouteFailures ==
    { Exc(c, "boom") : c \in Classes \ { "StarletteHTTPException", "RequestValidationError" } }
    \cup { HttpExc(404, "Not Found") }
    \cup { ValidationExc(<< [loc |-> << StrSeg("body"), StrSeg("age") >>,
                             msg |-> "must be positive", type |-> "value_error"] >>) }

\* One failure whose class has a handler of its own and one that only the
\* handler for Exception matches.
SomeRouteFailures ==
    { Exc("PostgresError", "boom"), Exc("ValueError", "boom") }

\* The handler that runs below the middlewares for class c, "none" when
\* only the handler for Exception matches.
InnerHandler(c) ==
    IF LookupHandler(c) = "Exception" THEN "none" ELSE LookupHandler(c)

\* The application runs with debug off.
Init ==
    /\ debug = FALSE
    /\ failure = NoExc
    /\ handler = "none"
    /\ response = NoResponse
    /\ PipeInit

\* time.time() advances.
Tick ==
    /\ clock < MaxClock
    /\ clock' = clock + 1
    /\ UNCHANGED << debug, pc, lm_request_id, start_time, cm_request_id, ctx,
                    result, outcome, reply, log, REQUEST_COUNT, REQUEST_LATENCY >>
    /\ UNCHANGED normVars

\* LoggingMiddleware.dispatch up to "await call_next(request)".
LoggingEnter(r) ==
    /\ pc[r] = "idle"
    /\ lm_request_id' = [lm_request_id EXCEPT ![r] = LmId(clock)]
    /\ LET bound == bind_contextvars(ctx, << r, "lm" >>,
                                     [k \in { "request_id" } |-> LmId(clock)])
       IN  /\ log' = [log EXCEPT ![r] =
                        Append(@, Record("Request started", r, "lm", bound, << >>, << >>))]
           /\ ctx' = spawn(bound, << r, "lm" >>, << r, "cm" >>)
    /\ start_time' = [start_time EXCEPT ![r] = clock]
    /\ pc' = [pc EXCEPT ![r] = "cm_enter"]
    /\ UNCHANGED << debug, clock, cm_request_id, result, outcome, reply,
                    REQUEST_COUNT, REQUEST_LATENCY >>
    /\ UNCHANGED normVars

\* RequestLoggingContextMiddleware.dispatch up to "await call_next(request)".
ContextEnter(r) ==
    /\ pc[r] = "cm_enter"
    /\ cm_request_id' = [cm_request_id EXCEPT ![r] = CmId(clock)]
    /\ LET t == << r, "cm" >>
           kv == [k \in { "request_id", "method", "path", "client_ip" } |->
                    CASE k = "request_id" -> CmId(clock)
                      [] k = "method"     -> RequestOf(r).method
                      [] k = "path"       -> RequestOf(r).path
                      [] k = "client_ip"  -> ClientHost(r)]
           bound == bind_contextvars(clear_contextvars(ctx, t), t, kv)
       IN  ctx' = spawn(bound, t, << r, "app" >>)
    /\ pc' = [pc EXCEPT ![r] = "route"]
    /\ UNCHANGED << debug, clock, lm_request_id, start_time, result, outcome,
                    reply, log, REQUEST_COUNT, REQUEST_LATENCY >>
    /\ UNCHANGED normVars

\* The route returns a response.
RouteReturn(r) ==
    /\ pc[r] = "route"
    /\ result' = [result EXCEPT ![r] = Returned(Response(200))]
    /\ pc' = [pc EXCEPT ![r] = "cm_resume"]
    /\ UNCHANGED << debug, clock, lm_request_id, start_time, cm_request_id, ctx,
                    outcome, reply, log, REQUEST_COUNT, REQUEST_LATENCY >>
    /\ UNCHANGED normVars

\* The route raises a failure whose class has a handler of its own: the
\* handler runs in the application's task and its response goes up.
RouteRaiseHandled(r, F) ==
    /\ pc[r] = "route"
    /\ \E exc \in F :
        LET h == InnerHandler(exc.cls)
        IN  /\ h # "none"
            /\ log' = [log EXCEPT ![r] =
                         Append(@, Record(HandlerEvent(h), r, "app", ctx, << >>, << >>))]
            /\ result' = [result EXCEPT ![r] =
                            [kind |-> "response",
                             response |-> RunHandler(h, exc, debug),
                             exc |-> exc]]
    /\ pc' = [pc EXCEPT ![r] = "cm_resume"]
    /\ UNCHANGED << debug, clock, lm_request_id, start_time, cm_request_id, ctx,
                    outcome, reply, REQUEST_COUNT, REQUEST_LATENCY >>
    /\ UNCHANGED normVars

\* The route raises a failure only the handler for Exception matches: the
\* failure goes up through the middlewares.
RouteRaiseUnhandled(r, F) ==
    /\ pc[r] = "route"
    /\ \E exc \in F :
        /\ InnerHandler(exc.cls) = "none"
        /\ result' = [result EXCEPT ![r] = Raised(exc)]
    /\ pc' = [pc EXCEPT ![r] = "cm_resume"]
    /\ UNCHANGED << debug, clock, lm_request_id, start_time, cm_request_id, ctx,
                    outcome, reply, log, REQUEST_COUNT, REQUEST_LATENCY >>
    /\ UNCHANGED normVars

\* RequestLoggingContextMiddleware.dispatch after call_next returned.
ContextReturn(r) ==
    /\ pc[r] = "cm_resume"
    /\ result[r].kind = "response"
    /\ ctx' = bind_contextvars(ctx, << r, "cm" >>,
                               [k \in { "status_code" } |-> result[r].response.status_code])
    /\ pc' = [pc EXCEPT ![r] = "lm_resume"]
    /\ UNCHANGED << debug, clock, lm_request_id, start_time, cm_request_id,
                    result, outcome, reply, log, REQUEST_COUNT, REQUEST_LATENCY >>
    /\ UNCHANGED normVars

\* RequestLoggingContextMiddleware.dispatch when call_next raised: no
\* except clause, the failure goes up.
ContextRaise(r) ==
    /\ pc[r] = "cm_resume"
    /\ result[r].kind = "raise"
    /\ pc' = [pc EXCEPT ![r] = "lm_resume"]
    /\ UNCHANGED << debug, clock, lm_request_id, start_time, cm_request_id, ctx,
                    result, outcome, reply, log, REQUEST_COUNT, REQUEST_LATENCY >>
    /\ UNCHANGED normVars

\* The host cancels the request while LoggingMiddleware.dispatch is
\* suspended in call_next: CancelledError is raised at the await.
Cancel(r) ==
    /\ pc[r] \in { "cm_enter", "route", "cm_resume" }
    /\ result' = [result EXCEPT ![r] = Raised(Exc("CancelledError", ""))]
    /\ pc' = [pc EXCEPT ![r] = "lm_resume"]
    /\ UNCHANGED << debug, clock, lm_request_id, start_time, cm_request_id, ctx,
                    outcome, reply, log, REQUEST_COUNT, REQUEST_LATENCY >>
    /\ UNCHANGED normVars

\* REQUEST_COUNT...inc() and REQUEST_LATENCY...observe(process_time)
RecordMetrics(r, status, process_time) ==
    /\ REQUEST_COUNT' = Inc(REQUEST_COUNT, r, status)
    /\ REQUEST_LATENCY' = Observe(REQUEST_LATENCY, r, process_time)

\* LoggingMiddleware.dispatch after call_next returned a response.
LoggingReturn(r) ==
    /\ pc[r] = "lm_resume"
    /\ result[r].kind = "response"
    /\ LET process_time == clock - start_time[r]
           status == result[r].response.status_code
       IN  /\ log' = [log EXCEPT ![r] =
                        Append(@, Record("Request completed", r, "lm", ctx,
                                         << status >>, << >>))]
           /\ RecordMetrics(r, status, process_time)
    /\ outcome' = [outcome EXCEPT ![r] = Returned(result[r].response)]
    /\ reply' = [reply EXCEPT ![r] = result[r].response]
    /\ pc' = [pc EXCEPT ![r] = "done"]
    /\ UNCHANGED << debug, clock, lm_request_id, start_time, cm_request_id, ctx,
                    result >>
    /\ UNCHANGED normVars

\* Mutant: the failure is handed on without a log record.
FailedRecordsNone(r, c, exc) ==
    << >>

\* logger.exception("Request failed", ..., error=str(e))
FailedRecords(r, c, exc) ==
    << Record("Request failed", r, "lm", c, << >>, << Str(exc) >>) >>

\* Mutant: the failure is swallowed and a response returned in its place.
ReraiseSwallowed(exc) ==
    Returned(Response(500))

\* raise
Reraise(exc) ==
    Raised(exc)

\* LoggingMiddleware.dispatch, "except Exception as e", after call_next
\* raised.
LoggingFail(r) ==
    /\ pc[r] = "lm_resume"
    /\ result[r].kind = "raise"
    /\ IsInstance(result[r].exc, "Exception")
    /\ LET process_time == clock - start_time[r]
       IN  /\ log' = [log EXCEPT ![r] = @ \o FailedRecords(r, ctx, result[r].exc)]
           /\ RecordMetrics(r, 500, process_time)
    /\ outcome' = [outcome EXCEPT ![r] = Reraise(result[r].exc)]
    /\ pc' = [pc EXCEPT ![r] =
                IF Reraise(result[r].exc).kind = "raise" THEN "server_error" ELSE "done"]
    /\ reply' = [reply EXCEPT ![r] =
                   IF Reraise(result[r].exc).kind = "raise"
                   THEN @ ELSE Reraise(result[r].exc).response]
    /\ UNCHANGED << debug, clock, lm_request_id, start_time, cm_request_id, ctx,
                    result >>
    /\ UNCHANGED normVars

\* LoggingMiddleware.dispatch when what call_next raised is not an
\* Exception: neither the try body's rest nor the except clause runs.
LoggingPropagate(r) ==
    /\ pc[r] = "lm_resume"
    /\ result[r].kind = "raise"
    /\ ~ IsInstance(result[r].exc, "Exception")
    /\ outcome' = [outcome EXCEPT ![r] = Cancelled]
    /\ pc' = [pc EXCEPT ![r] = "done"]
    /\ UNCHANGED << debug, clock, lm_request_id, start_time, cm_request_id, ctx,
                    result, reply, log, REQUEST_COUNT, REQUEST_LATENCY >>
    /\ UNCHANGED normVars

\* The failure LoggingMiddleware re-raised reaches the handler registered
\* for Exception, which runs in the server's task.
ServerError(r) ==
    /\ pc[r] = "server_error"
    /\ log' = [log EXCEPT ![r] =
                 Append(@, Record(HandlerEvent("Exception"), r, "lm", ctx,
                                  << >>, << Str(outcome[r].exc) >>))]
    /\ reply' = [reply EXCEPT ![r] = RunHandler("Exception", outcome[r].exc, debug)]
    /\ pc' = [pc EXCEPT ![r] = "done"]
    /\ UNCHANGED << debug, clock, lm_request_id, start_time, cm_request_id, ctx,
                    result, outcome, REQUEST_COUNT, REQUEST_LATENCY >>
    /\ UNCHANGED normVars

Next ==
    \/ Tick
    \/ \E r \in Req : LoggingEnter(r)
    \/ \E r \in Req : ContextEnter(r)
    \/ \E r \in Req : RouteReturn(r)
    \/ \E r \in Req : RouteRaiseHandled(r, SomeRouteFailures)
    \/ \E r \in Req : RouteRaiseUnhandled(r, SomeRouteFailures)
    \/ \E r \in Req : ContextReturn(r)
    \/ \E r \in Req : ContextRaise(r)
    \/ \E r \in Req : Cancel(r)
    \/ \E r \in Req : LoggingReturn(r)
    \/ \E r \in Req : LoggingFail(r)
    \/ \E r \in Req : LoggingPropagate(r)
    \/ \E r \in Req : ServerError(r)

Spec ==
    Init /\ [][Next]_vars

\* One request at a time, its route raising failures of every class.
NextSingle ==
    \/ Tick
    \/ LoggingEnter(1)
    \/ ContextEnter(1)
    \/ RouteReturn(1)
    \/ RouteRaiseHandled(1, AllRouteFailures)
    \/ RouteRaiseUnhandled(1, AllRouteFailures)
    \/ ContextReturn(1)
    \/ ContextRaise(1)
    \/ Cancel(1)
    \/ LoggingReturn(1)
    \/ LoggingFail(1)
    \/ LoggingPropagate(1)
    \/ ServerError(1)

\* The application runs with debug on or off.
InitSingle ==
    /\ debug \in BOOLEAN
    /\ failure = NoExc
    /\ handler = "none"
    /\ response = NoResponse
    /\ PipeInit

SpecSingle ==
    InitSingle /\ [][NextSingle]_vars

(***************************************************************************)
(* Helpers of the properties                                               *)
(***************************************************************************)
RECURSIVE SumOver(_, _)
SumOver(S, f) ==
    IF S = { } THEN 0
    ELSE LET x == CHOOSE y \in S : TRUE
         IN  f[x] + SumOver(S \ { x }, f)

\* Number of increments of the request counter.
Increments ==
    SumOver(CountLabels, REQUEST_COUNT)

\* Number of observations of the duration histogram.
Observations ==
    SumOver(LatencyLabels, [l \in LatencyLabels |-> REQUEST_LATENCY[l].count])

\* The invocations of LoggingMiddleware.dispatch that have ended.
Finished ==
    { r \in Req : outcome[r].kind # "none" }

Events(r) ==
    { log[r][i].event : i \in 1..Len(log[r]) }

\* The precedence table of the specification: class -> << status, type >>.
SpecTable(exc) ==
    CASE exc.cls = "StarletteHTTPException"   -> << exc.status_code, "http_error" >>
      [] exc.cls = "RequestValidationError"   -> << 422, "validation_error" >>
      [] exc.cls = "DatabaseConnectionError"  -> << 503, "database_connection_error" >>
      [] exc.cls = "PostgresError"            -> << 500, "database_error" >>
      [] exc.cls = "AnalysisException"        -> << 400, "query_analysis_error" >>
      [] exc.cls = "IllegalArgumentException" -> << 400, "query_argument_error" >>
      [] exc.cls = "TrinoQueryError"          -> << 400, "distributed_query_error" >>
      [] exc.cls = "QueryBuildError"          -> << 400, "query_build_error" >>
      [] exc.cls = "UnknownDataSourceError"   -> << 400, "unknown_data_source_error" >>

\* The same table with the type strings of the handlers.
CodeTable(exc) ==
    CASE exc.cls = "StarletteHTTPException"   -> << exc.status_code, "http_error" >>
      [] exc.cls = "RequestValidationError"   -> << 422, "validation_error" >>
      [] exc.cls = "DatabaseConnectionError"  -> << 503, "database_connection_error" >>
      [] exc.cls = "PostgresError"            -> << 500, "postgres_error" >>
      [] exc.cls = "AnalysisException"        -> << 400, "spark_analysis_error" >>
      [] exc.cls = "IllegalArgumentException" -> << 400, "spark_argument_error" >>
      [] exc.cls = "TrinoQueryError"          -> << 400, "trino_query_error" >>
      [] exc.cls = "QueryBuildError"          -> << 400, "query_build_error" >>
      [] exc.cls = "UnknownDataSourceError"   -> << 400, "unknown_data_source_error" >>

Recognized ==
    RegisteredSet \ { "Exception" }

\* ErrorKind of the specification.
ErrorKind ==
    { "http_error", "validation_error", "database_connection_error",
      "database_error", "query_analysis_error", "query_argument_error",
      "distributed_query_error", "query_build_error",
      "unknown_data_source_error", "server_error" }

\* The type strings the handlers return.
CodeErrorKind ==
    { "http_error", "validation_error", "database_connection_error",
      "postgres_error", "spark_analysis_error", "spark_argument_error",
      "trino_query_error", "query_build_error",
      "unknown_data_source_error", "server_error" }

\* The location string of a field error, built from the last segment back.
RECURSIVE ExpectedLocation(_)
ExpectedLocation(loc) ==
    IF Len(loc) = 0 THEN ""
    ELSE IF Len(loc) = 1 THEN StrOf(loc[1])
    ELSE ExpectedLocation(SubSeq(loc, 1, Len(loc) - 1)) \o " -> " \o StrOf(loc[Len(loc)])

Normalized ==
    handler # "none"

(***************************************************************************)
(* Properties                                                              *)
(***************************************************************************)

\* C1: after any sequence of requests, the number of increments of the
\* request counter and the number of observations of the duration histogram
\* both equal the number of invocations of LoggingMiddleware.dispatch that
\* have ended, however they ended.
C1_OneSamplePerInvocation ==
    /\ Increments = Cardinality(Finished)
    /\ Observations = Cardinality(Finished)

\* C2 (as stated): for every recognized failure class the response has the
\* status code and the type of the specification's precedence table.
C2_SpecPrecedenceTable ==
    (Normalized /\ failure.cls \in Recognized)
        => << response.status_code, response.type >> = SpecTable(failure)

\* C2 (amended): for every recognized failure class the handler of that very
\* class runs and the response has the status code of the precedence table
\* and the type string of the handler (postgres_error, spark_analysis_error,
\* spark_argument_error, trino_query_error for rules 4 to 7), whatever the
\* message.
C2_CodePrecedenceTable ==
    (Normalized /\ failure.cls \in Recognized)
        => /\ handler = failure.cls
           /\ << response.status_code, response.type >> = CodeTable(failure)

C2_Witness ==
    /\ Normalized
    /\ failure.cls = "PostgresError"
    /\ failure.msg = "relation users does not exist"
    /\ response.type = "postgres_error"

\* C3: on the catch-all path, detail is the fixed string "An unexpected
\* error occurred" when debug is off, whatever the message, and the
\* failure's message when debug is on.
C3_DebugGate ==
    (Normalized /\ handler = "Exception")
        => /\ ~ debug => response.detail = << "An unexpected error occurred" >>
           /\ debug => response.detail = << failure.msg >>

C3_Witness ==
    /\ Normalized
    /\ handler = "Exception"
    /\ ~ debug
    /\ failure.msg = "relation users does not exist"
    /\ response.detail = << "An unexpected error occurred" >>

\* C4 (as stated): a failure of none of the nine specific classes gets 500
\* and server_error, and every response's type is in ErrorKind.
C4_SpecClosedTaxonomy ==
    Normalized
        => /\ failure.cls \notin Recognized
                => (response.status_code = 500 /\ response.type = "server_error")
           /\ response.type \in ErrorKind

\* C4 (amended): a failure of none of the nine specific classes gets 500 and
\* server_error from the catch-all, a handler exists for every failure, and
\* every response's type is one of the ten type strings of the handlers.
C4_CodeClosedTaxonomy ==
    /\ LookupHandler(failure.cls) \in RegisteredSet
    /\ Normalized
        => /\ failure.cls \notin Recognized
                => /\ handler = "Exception"
                   /\ response.status_code = 500
                   /\ response.type = "server_error"
           /\ response.type \in CodeErrorKind

C4_Witness ==
    /\ Normalized
    /\ failure.cls = "RuntimeError"
    /\ response.status_code = 500
    /\ response.type = "server_error"

\* C5 (as stated): no exception handler runs for a request before
\* LoggingMiddleware has logged "Request failed" for that request.
C5_FailedBeforeAnyHandler ==
    \A r \in Req : \A i \in 1..Len(log[r]) :
        log[r][i].event \in HandlerEvents
            => \E j \in 1..(i - 1) : log[r][j].event = "Request failed"

\* C5 (amended): the handler registered for Exception never runs for a
\* request before LoggingMiddleware has logged "Request failed" and updated
\* the metrics for that request.
C5_FailedBeforeCatchAll ==
    \A r \in Req : \A i \in 1..Len(log[r]) :
        log[r][i].event = HandlerEvent("Exception")
            => /\ \E j \in 1..(i - 1) :
                    /\ log[r][j].event = "Request failed"
                    /\ log[r][j].task = "lm"
               /\ REQUEST_COUNT[<< RequestOf(r).method, RequestOf(r).path, 500 >>] >= 1
               /\ REQUEST_LATENCY[<< RequestOf(r).method, RequestOf(r).path >>].count >= 1

C5_Witness ==
    \E r \in Req :
        /\ pc[r] = "done"
        /\ HandlerEvent("Exception") \in Events(r)
        /\ reply[r].type = "server_error"

\* C6: every log record emitted for a request carries, under each context
\* key that is bound, the value that request's own middlewares bound, and
\* never the value another request bound.
C6_ContextIsolation ==
    \A r \in Req : \A i \in 1..Len(log[r]) :
        LET c == log[r][i].ctx
        IN  /\ c["request_id"] \in { << lm_request_id[r] >>, << cm_request_id[r] >> }
            /\ log[r][i].task = "lm" => c["request_id"] = << lm_request_id[r] >>
            /\ log[r][i].task = "app" => c["request_id"] = << cm_request_id[r] >>
            /\ c["method"] \in { << >>, << RequestOf(r).method >> }
            /\ c["path"] \in { << >>, << RequestOf(r).path >> }
            /\ c["client_ip"] \in { << >>, << ClientHost(r) >> }

C6_Witness ==
    \E r \in Req : \E q \in Req \ { r } :
        /\ pc[r] = "cm_resume"
        /\ Len(log[r]) = 2
        /\ log[r][2].task = "app"
        /\ pc[q] = "route"
        /\ lm_request_id[q] # lm_request_id[r]
        /\ cm_request_id[q] # cm_request_id[r]

\* C7: when an invocation of the observer has ended, the context bindings
\* it made are no longer bound.
C7_ContextReleased ==
    \A r \in Req :
        pc[r] = "done"
            => /\ ctx[<< r, "lm" >>] = EmptyContext
               /\ ctx[<< r, "cm" >>] = EmptyContext

\* C8: when call_next raised a failure, LoggingMiddleware.dispatch ends by
\* raising that same failure, never by returning a response, after it has
\* logged "Request failed" with the failure's message and recorded the
\* counter under status code 500 and the duration.
C8_FailurePropagates ==
    \A r \in Req :
        (/\ outcome[r].kind # "none"
         /\ result[r].kind = "raise"
         /\ IsInstance(result[r].exc, "Exception"))
            => /\ outcome[r] = Raised(result[r].exc)
               /\ \E i \in 1..Len(log[r]) :
                    /\ log[r][i].event = "Request failed"
                    /\ log[r][i].error = << result[r].exc.msg >>
               /\ "Request completed" \notin Events(r)
               /\ REQUEST_COUNT[<< RequestOf(r).method, RequestOf(r).path, 500 >>] >= 1
               /\ REQUEST_LATENCY[<< RequestOf(r).method, RequestOf(r).path >>].count >= 1

C8_Witness ==
    \E r \in Req :
        /\ pc[r] = "server_error"
        /\ outcome[r].kind = "raise"
        /\ outcome[r].exc.cls = "ValueError"

\* C9: a validation failure gets 422 and validation_error and a details
\* list as long as the reported field errors, in their order, entry i having
\* the i-th error's location segments joined with " -> " and its message
\* and type; loc ["body", "age"] gives "body -> age".
C9_ValidationDetails ==
    (Normalized /\ failure.cls = "RequestValidationError")
        => /\ response.status_code = 422
           /\ response.type = "validation_error"
           /\ Len(response.details) = 1
           /\ LET d == response.details[1]
              IN  /\ Len(d) = Len(failure.errors)
                  /\ \A i \in 1..Len(d) :
                        /\ d[i].location = ExpectedLocation(failure.errors[i].loc)
                        /\ d[i].message = failure.errors[i].msg
                        /\ d[i].type = failure.errors[i].type
                        /\ failure.errors[i].loc = << StrSeg("body"), StrSeg("age") >>
                              => d[i].location = "body -> age"
                        /\ failure.errors[i].loc = << StrSeg("body"), IntSeg(0) >>
                              => d[i].location = "body -> 0"

C9_Witness ==
    /\ Normalized
    /\ failure.cls = "RequestValidationError"
    /\ Len(failure.errors) = 2
    /\ failure.errors[1].loc = << StrSeg("body"), StrSeg("age") >>
    /\ failure.errors[2].loc = << IntSeg(0) >>
    /\ response.details[1][1].location = "body -> age"
    /\ response.details[1][2].location = "0"

\* C10: a request cancelled while the observer is suspended in call_next
\* still gets a "Request failed" record, one counter increment and one
\* histogram observation.
C10_CancellationRecorded ==
    \A r \in Req :
        outcome[r].kind = "cancelled"
            => /\ "Request failed" \in Events(r)
               /\ REQUEST_COUNT[<< RequestOf(r).method, RequestOf(r).path, 500 >>] >= 1
               /\ REQUEST_LATENCY[<< RequestOf(r).method, RequestOf(r).path >>].count >= 1

=============================================================================
